---- MODULE Spec2Model ----
(***************************************************************************)
(* HOG construction of pyham: the OrthoXMLParser event handlers            *)
(* (ham/parsers.py), the Gene/HOG node model (ham/abstractgene.py) and the *)
(* genome registry and missing-taxon insertion of HAM (ham/ham.py).        *)
(*                                                                         *)
(* Objects live in an arena: `nodes` is the sequence of all Gene and HOG   *)
(* objects created so far, a reference is an index into it and 0 is the    *)
(* Python None reference.  A Genome is referred to by the taxonomic node   *)
(* it is attached to (taxon.genome / genome.taxon).                        *)
(***************************************************************************)
EXTENDS Integers, Sequences, FiniteSets, TLC

\* ------------------------------------------------------------------ bounds
MaxGenes == 2
MaxHogs == 3
MaxChildren == 2
MaxScores == 1
\* a document with a single group: its children, and the HOGs it may end with
MaxOneGroupChildren == 3
MaxOneGroupHogs == 4

\* ------------------------------------------------------------------ inputs
None == "None"
GeneIds == {"g1", "g2"}
GeneRefIds == GeneIds \cup {"g3"}
ExtIds == {"x"}
HogIds == {None, "h1"}
ScoreIds == {"s"}
ScoreValues == {"0.5"}
\* None: the property element has no name attribute
PropertyNames == {"TaxRange", "other", None}
Newicks == {"T1", "T2"}

Range(s) == {s[i] : i \in DOMAIN s}

\* ---------------------------------------------------------------- taxonomy
\* T1 = ((human,mouse)mammal,(chicken)bird)vertebrate
Up1 ==
    [t \in {"human", "mouse", "chicken", "mammal", "bird", "vertebrate"} |->
        CASE t = "human" -> "mammal"
          [] t = "mouse" -> "mammal"
          [] t = "chicken" -> "bird"
          [] t = "mammal" -> "vertebrate"
          [] t = "bird" -> "vertebrate"
          [] OTHER -> None]

\* T2 = (((human,chimp)primate)mammal,chicken)vertebrate
Up2 ==
    [t \in {"human", "chimp", "chicken", "primate", "mammal", "vertebrate"} |->
        CASE t = "human" -> "primate"
          [] t = "chimp" -> "primate"
          [] t = "primate" -> "mammal"
          [] t = "mammal" -> "vertebrate"
          [] t = "chicken" -> "vertebrate"
          [] OTHER -> None]

\* T3 = (human,twin,twin)vertebrate: two leaves carry the same name
Up3 ==
    [t \in {"human", "twinA", "twinB", "vertebrate"} |->
        IF t = "vertebrate" THEN None ELSE "vertebrate"]

Taxonomy(nw) == IF nw = "T1" THEN Up1 ELSE IF nw = "T2" THEN Up2 ELSE Up3

\* the name feature of a taxonomic node
NodeName(t) == IF t \in {"twinA", "twinB"} THEN "twin" ELSE t

Leaves(up) == {t \in DOMAIN up : \A u \in DOMAIN up : up[u] # t}

SpeciesNames(up) == {NodeName(t) : t \in Leaves(up)} \cup {"unknown"}

RECURSIVE Lineage(_, _)
\* t, t.up, t.up.up, ..., root
Lineage(up, t) == IF up[t] = None THEN <<t>> ELSE <<t>> \o Lineage(up, up[t])

Depth(up, t) == Len(Lineage(up, t)) - 1

search_nodes(up, name) == {t \in DOMAIN up : NodeName(t) = name}

get_common_ancestor(up, S) ==
    LET common == {a \in DOMAIN up : \A t \in S : a \in Range(Lineage(up, t))}
    IN  CHOOSE a \in common : \A b \in common : Depth(up, a) >= Depth(up, b)

\* the nodes strictly between descendant and ancestor, nearest the descendant first
get_path_up(up, descendant, ancestor) ==
    SelectSeq(Tail(Lineage(up, descendant)),
              LAMBDA x : x # ancestor /\ ancestor \in Range(Lineage(up, x)))

\* ---------------------------------------------------------------- node model
NewGene(id, geneId) ==
    [kind |-> "gene", id |-> id, gene_id |-> geneId, parent |-> 0,
     genome |-> None, children |-> <<>>, scores |-> <<>>]

NewHOG(id) ==
    [kind |-> "hog", id |-> id, gene_id |-> None, parent |-> 0,
     genome |-> None, children |-> <<>>, scores |-> <<>>]

RECURSIVE RemoveFirst(_, _)
\* list.remove: drops the first occurrence
RemoveFirst(s, e) ==
    IF s = <<>> THEN <<>>
    ELSE IF Head(s) = e THEN Tail(s) ELSE <<Head(s)>> \o RemoveFirst(Tail(s), e)

\* add_child without the self-reference test
AddChildNoSelfCheck(ns, p, c) ==
    [ok |-> TRUE, err |-> None,
     nodes |-> [ns EXCEPT ![p].children = Append(@, c), ![c].parent = p]]

add_child(ns, p, c) ==
    IF p = c
    THEN [ok |-> FALSE, err |-> "EvolutionaryConceptError", nodes |-> ns]
    ELSE [ok |-> TRUE, err |-> None,
          nodes |-> [ns EXCEPT ![p].children = Append(@, c), ![c].parent = p]]

remove_child(ns, p, c) ==
    IF c \in Range(ns[p].children)
    THEN [ok |-> TRUE, err |-> None,
          nodes |-> [ns EXCEPT ![p].children = RemoveFirst(@, c), ![c].parent = 0]]
    ELSE [ok |-> FALSE, err |-> "ValueError", nodes |-> ns]

\* set_genome that rebinds without a test
SetGenomeOverwrites(ns, n, g) ==
    [ok |-> TRUE, err |-> None, nodes |-> [ns EXCEPT ![n].genome = g]]

set_genome(ns, n, g) ==
    IF ns[n].genome # None /\ g # ns[n].genome
    THEN [ok |-> FALSE, err |-> "EvolutionaryConceptError", nodes |-> ns]
    ELSE [ok |-> TRUE, err |-> None, nodes |-> [ns EXCEPT ![n].genome = g]]

score(ns, n, score_id, value) == [ns EXCEPT ![n].scores = (score_id :> value) @@ @]

\* ------------------------------------------------------------ genome registry
\* serial counts the Genome objects attached to the node so far
NoGenome == [kind |-> None, genes |-> {}, serial |-> 0]

add_genome_to_node(tg, t, kind) ==
    [tg EXCEPT ![t] = [kind |-> kind, genes |-> {}, serial |-> @.serial + 1]]

add_gene(tg, t, n) == [tg EXCEPT ![t].genes = @ \cup {n}]

\* _get_extant_genome_by_name that takes the first node when several are found
GetExtantGenomeFirstMatch(up, tg, name) ==
    LET nodes_founded == search_nodes(up, name)
    IN  IF Cardinality(nodes_founded) >= 1
        THEN LET node == CHOOSE t \in nodes_founded : TRUE
             IN  IF tg[node].kind # None
                 THEN [ok |-> TRUE, err |-> None, taxon_genome |-> tg, genome |-> node]
                 ELSE [ok |-> TRUE, err |-> None,
                       taxon_genome |-> add_genome_to_node(tg, node, "extant"),
                       genome |-> node]
        ELSE [ok |-> FALSE, err |-> "KeyError", taxon_genome |-> tg, genome |-> None]

_get_extant_genome_by_name(up, tg, name) ==
    LET nodes_founded == search_nodes(up, name)
    IN  IF Cardinality(nodes_founded) = 1
        THEN LET node == CHOOSE t \in nodes_founded : TRUE
             IN  IF tg[node].kind # None
                 THEN [ok |-> TRUE, err |-> None, taxon_genome |-> tg, genome |-> node]
                 ELSE [ok |-> TRUE, err |-> None,
                       taxon_genome |-> add_genome_to_node(tg, node, "extant"),
                       genome |-> node]
        ELSE [ok |-> FALSE, err |-> "KeyError", taxon_genome |-> tg, genome |-> None]

\* _get_ancestral_genome_by_taxon that never looks for an attached genome
GetAncestralGenomeAlwaysNew(tg, tax_node) ==
    [taxon_genome |-> add_genome_to_node(tg, tax_node, "ancestral"),
     genome |-> tax_node]

_get_ancestral_genome_by_taxon(tg, tax_node) ==
    IF tg[tax_node].kind # None
    THEN [taxon_genome |-> tg, genome |-> tax_node]
    ELSE [taxon_genome |-> add_genome_to_node(tg, tax_node, "ancestral"),
          genome |-> tax_node]

\* _get_ancestral_genome_by_mrca_of_genome_set without the test of the set size
MrcaOfGenomeSetAnySize(up, tg, genome_set) ==
    IF None \in genome_set
    THEN [ok |-> FALSE, err |-> "TypeError", taxon_genome |-> tg, genome |-> None]
    ELSE LET mrca_node == get_common_ancestor(up, genome_set)
             r == _get_ancestral_genome_by_taxon(tg, mrca_node)
         IN  [ok |-> TRUE, err |-> None, taxon_genome |-> r.taxon_genome,
              genome |-> r.genome]

\* _get_ancestral_genome_by_mrca_of_genome_set that answers with the genome of
\* the root of the taxonomy
MrcaOfGenomeSetTakesRoot(up, tg, genome_set) ==
    IF Cardinality(genome_set) < 2
    THEN [ok |-> FALSE, err |-> "ValueError", taxon_genome |-> tg, genome |-> None]
    ELSE IF None \in genome_set
    THEN [ok |-> FALSE, err |-> "TypeError", taxon_genome |-> tg, genome |-> None]
    ELSE LET mrca_node == CHOOSE t \in DOMAIN up : up[t] = None
             r == _get_ancestral_genome_by_taxon(tg, mrca_node)
         IN  [ok |-> TRUE, err |-> None, taxon_genome |-> r.taxon_genome,
              genome |-> r.genome]

_get_ancestral_genome_by_mrca_of_genome_set(up, tg, genome_set) ==
    IF Cardinality(genome_set) < 2
    THEN [ok |-> FALSE, err |-> "ValueError", taxon_genome |-> tg, genome |-> None]
    ELSE IF None \in genome_set
    THEN [ok |-> FALSE, err |-> "TypeError", taxon_genome |-> tg, genome |-> None]
    ELSE LET mrca_node == get_common_ancestor(up, genome_set)
             r == _get_ancestral_genome_by_taxon(tg, mrca_node)
         IN  [ok |-> TRUE, err |-> None, taxon_genome |-> r.taxon_genome,
              genome |-> r.genome]

_get_ancestral_genome_by_mrca_of_hog_children_genomes(up, ns, tg, hog) ==
    LET children_genomes == {ns[c].genome : c \in Range(ns[hog].children)}
    IN  _get_ancestral_genome_by_mrca_of_genome_set(up, tg, children_genomes)

RECURSIVE InsertLevelsNoTaxonCheck(_, _, _, _, _)
\* the loop of _add_missing_taxon without the test of the taxon of the new HOG
InsertLevelsNoTaxonCheck(up, ns, tg, current_child, missing_taxons) ==
    IF missing_taxons = <<>>
    THEN [ok |-> TRUE, err |-> None, nodes |-> ns, taxon_genome |-> tg,
          current_child |-> current_child]
    ELSE LET tax == Head(missing_taxons)
             g == _get_ancestral_genome_by_taxon(tg, tax)
             hog == Len(ns) + 1
             bound == set_genome(Append(ns, NewHOG(None)), hog, g.genome)
             tg2 == add_gene(g.taxon_genome, g.genome, hog)
             a == add_child(bound.nodes, hog, current_child)
         IN  InsertLevelsNoTaxonCheck(up, a.nodes, tg2, hog, Tail(missing_taxons))

RECURSIVE InsertLevels(_, _, _, _, _)
\* the loop of _add_missing_taxon over missing_taxons; current_child is the chain tail
InsertLevels(up, ns, tg, current_child, missing_taxons) ==
    IF missing_taxons = <<>>
    THEN [ok |-> TRUE, err |-> None, nodes |-> ns, taxon_genome |-> tg,
          current_child |-> current_child]
    ELSE LET tax == Head(missing_taxons)
             g == _get_ancestral_genome_by_taxon(tg, tax)
             hog == Len(ns) + 1
             bound == set_genome(Append(ns, NewHOG(None)), hog, g.genome)
             tg2 == add_gene(g.taxon_genome, g.genome, hog)
         IN  IF g.genome # up[ns[current_child].genome]
             THEN [ok |-> FALSE, err |-> "TypeError", nodes |-> bound.nodes,
                   taxon_genome |-> tg2, current_child |-> current_child]
             ELSE LET a == add_child(bound.nodes, hog, current_child)
                  IN  InsertLevels(up, a.nodes, tg2, hog, Tail(missing_taxons))

\* _add_missing_taxon that makes the chain the only child of the oldest HOG
AddMissingTaxonDropsSiblings(up, ns, tg, child_hog, oldest_hog, missing_taxons) ==
    IF oldest_hog = child_hog
    THEN [ok |-> FALSE, err |-> "TypeError", nodes |-> ns, taxon_genome |-> tg]
    ELSE LET r == remove_child(ns, oldest_hog, child_hog)
             c == InsertLevels(up, r.nodes, tg, child_hog, missing_taxons)
         IN  IF ~r.ok
             THEN [ok |-> FALSE, err |-> r.err, nodes |-> ns, taxon_genome |-> tg]
             ELSE IF ~c.ok
             THEN [ok |-> FALSE, err |-> c.err, nodes |-> c.nodes,
                   taxon_genome |-> c.taxon_genome]
             ELSE [ok |-> TRUE, err |-> None,
                   nodes |-> [c.nodes EXCEPT
                                  ![oldest_hog].children = <<c.current_child>>,
                                  ![c.current_child].parent = oldest_hog],
                   taxon_genome |-> c.taxon_genome]

\* _add_missing_taxon that leaves the child among the children of the oldest HOG
AddMissingTaxonKeepsChild(up, ns, tg, child_hog, oldest_hog, missing_taxons) ==
    IF oldest_hog = child_hog
    THEN [ok |-> FALSE, err |-> "TypeError", nodes |-> ns, taxon_genome |-> tg]
    ELSE LET c == InsertLevels(up, ns, tg, child_hog, missing_taxons)
             a == add_child(c.nodes, oldest_hog, c.current_child)
         IN  [ok |-> c.ok /\ a.ok, err |-> IF c.ok THEN a.err ELSE c.err,
              nodes |-> IF c.ok THEN a.nodes ELSE c.nodes,
              taxon_genome |-> c.taxon_genome]

\* _add_missing_taxon that hands the child itself, not the chain, back to the
\* oldest HOG
AddMissingTaxonReattachesChild(up, ns, tg, child_hog, oldest_hog, missing_taxons) ==
    IF oldest_hog = child_hog
    THEN [ok |-> FALSE, err |-> "TypeError", nodes |-> ns, taxon_genome |-> tg]
    ELSE LET r == remove_child(ns, oldest_hog, child_hog)
             c == InsertLevels(up, r.nodes, tg, child_hog, missing_taxons)
             a == add_child(c.nodes, oldest_hog, child_hog)
         IN  IF ~r.ok
             THEN [ok |-> FALSE, err |-> r.err, nodes |-> ns, taxon_genome |-> tg]
             ELSE [ok |-> c.ok /\ a.ok, err |-> IF c.ok THEN a.err ELSE c.err,
                   nodes |-> IF c.ok THEN a.nodes ELSE c.nodes,
                   taxon_genome |-> c.taxon_genome]

_add_missing_taxon(up, ns, tg, child_hog, oldest_hog, missing_taxons) ==
    IF oldest_hog = child_hog
    THEN [ok |-> FALSE, err |-> "TypeError", nodes |-> ns, taxon_genome |-> tg]
    ELSE LET r == remove_child(ns, oldest_hog, child_hog)
         IN  IF ~r.ok
             THEN [ok |-> FALSE, err |-> r.err, nodes |-> ns, taxon_genome |-> tg]
             ELSE LET c == InsertLevels(up, r.nodes, tg, child_hog, missing_taxons)
                  IN  IF ~c.ok
                      THEN [ok |-> FALSE, err |-> c.err, nodes |-> c.nodes,
                            taxon_genome |-> c.taxon_genome]
                      ELSE LET a == add_child(c.nodes, oldest_hog, c.current_child)
                           IN  [ok |-> a.ok, err |-> a.err, nodes |-> a.nodes,
                                taxon_genome |-> c.taxon_genome]

\* ------------------------------------------------------------------- parser
VARIABLES
    newick,             \* the taxonomy HAM was built with (HAM.taxonomy)
    filter,             \* OrthoXMLParser.filter
    nodes,              \* every Gene and HOG object created so far
    taxon_genome,       \* the genome feature of each taxonomic node
    extant_gene_map,    \* OrthoXMLParser.extant_gene_map (0: no such key)
    external_id_mapper, \* OrthoXMLParser.external_id_mapper
    current_species,    \* OrthoXMLParser.current_species
    hog_stack,          \* OrthoXMLParser.hog_stack
    toplevel_hogs,      \* OrthoXMLParser.toplevel_hogs (0: no such key)
    status,             \* "parsing", "failed" (a handler raised), "closed"
    error,              \* the exception that ended the parse
    history,            \* observers of the event stream, read by no handler
    limits,             \* the size of the documents fed to the parser
    workers             \* the _add_missing_taxon calls in progress, when two of
                        \* them are run side by side (<<>>: none)

vars == <<newick, filter, nodes, taxon_genome, extant_gene_map, external_id_mapper,
          current_species, hog_stack, toplevel_hogs, status, error, history, limits,
          workers>>

\* an attribute that no statement has assigned
Absent == "AttributeError"

Up == Taxonomy(newick)

Genes == {n \in DOMAIN nodes : nodes[n].kind = "gene"}
HOGs == {n \in DOMAIN nodes : nodes[n].kind = "hog"}
Last(s) == s[Len(s)]
Front(s) == SubSeq(s, 1, Len(s) - 1)

\* The streams fed to the parser follow the document order of OrthoXML: the
\* species elements (with their genes) come before the groups, and a species
\* element is closed before the first group opens.
InSpeciesSection == HOGs = {}

\* nothing observed yet: the groups opened, those opened at document level, those
\* the filter accepted at document level, a geneRef seen outside every group, and
\* what was wrong with a species name that does not denote one taxonomic node
NoHistory ==
    [groups |-> {}, document_roots |-> {}, accepted |-> {}, stray_ref |-> FALSE,
     bad_species |-> None]

\* documents of at most MaxHogs groups and HOGs, MaxChildren children a group
DefaultLimits == [hogs |-> MaxHogs, children |-> MaxChildren, groups |-> MaxHogs]

Init ==
    /\ newick = "T1"
    /\ filter = "default"
    /\ nodes = <<>>
    /\ taxon_genome = [t \in DOMAIN Taxonomy(newick) |-> NoGenome]
    /\ extant_gene_map = [k \in GeneRefIds |-> 0]
    /\ external_id_mapper = Absent
    /\ current_species = None
    /\ hog_stack = <<>>
    /\ toplevel_hogs = [k \in HogIds |-> 0]
    /\ status = "parsing"
    /\ error = None
    /\ history = NoHistory
    /\ limits = DefaultLimits
    /\ workers = <<>>

Raise(err) == status' = "failed" /\ error' = err

\* what the handlers never assign
fixedVars == <<newick, filter, external_id_mapper, limits, workers>>

StartSpecies(name) ==
    /\ status = "parsing"
    /\ InSpeciesSection
    /\ LET r == _get_extant_genome_by_name(Up, taxon_genome, name)
       IN  IF r.ok
           THEN /\ current_species' = r.genome
                /\ taxon_genome' = r.taxon_genome
                /\ UNCHANGED <<status, error>>
           ELSE /\ Raise(r.err)
                /\ UNCHANGED <<current_species, taxon_genome>>
    /\ history' = [history EXCEPT
                       !.bad_species =
                           CASE Cardinality(search_nodes(Up, name)) = 0 -> "no match"
                             [] Cardinality(search_nodes(Up, name)) > 1 -> "ambiguous"
                             [] OTHER -> @]
    /\ UNCHANGED <<nodes, extant_gene_map, hog_stack, toplevel_hogs, fixedVars>>

\* the gene handler when the gene is registered but never bound to the species
StartGeneWithoutGenome(id, geneId) ==
    /\ status = "parsing"
    /\ InSpeciesSection
    /\ Cardinality(Genes) < MaxGenes
    /\ LET gene == Len(nodes) + 1
       IN  IF current_species = None
           THEN /\ Raise("AttributeError")
                /\ nodes' = Append(nodes, NewGene(id, geneId))
                /\ UNCHANGED <<taxon_genome, extant_gene_map>>
           ELSE /\ nodes' = Append(nodes, NewGene(id, geneId))
                /\ taxon_genome' = add_gene(taxon_genome, current_species, gene)
                /\ extant_gene_map' = [extant_gene_map EXCEPT ![id] = gene]
                /\ UNCHANGED <<status, error>>
    /\ UNCHANGED <<current_species, hog_stack, toplevel_hogs, fixedVars, history>>

\* the gene handler when a gene outside every species is registered all the same
StartGeneRegistersAnyway(id, geneId) ==
    /\ status = "parsing"
    /\ InSpeciesSection
    /\ Cardinality(Genes) < MaxGenes
    /\ LET gene == Len(nodes) + 1
           bound == set_genome(Append(nodes, NewGene(id, geneId)), gene, current_species)
       IN  /\ nodes' = bound.nodes
           /\ taxon_genome' = IF current_species = None THEN taxon_genome
                              ELSE add_gene(taxon_genome, current_species, gene)
           /\ extant_gene_map' = [extant_gene_map EXCEPT ![id] = gene]
           /\ UNCHANGED <<status, error>>
    /\ UNCHANGED <<current_species, hog_stack, toplevel_hogs, fixedVars, history>>

StartGene(id, geneId) ==
    /\ status = "parsing"
    /\ InSpeciesSection
    /\ Cardinality(Genes) < MaxGenes
    /\ LET gene == Len(nodes) + 1
           bound == set_genome(Append(nodes, NewGene(id, geneId)), gene, current_species)
       IN  IF current_species = None
           THEN /\ Raise("AttributeError")
                /\ nodes' = bound.nodes
                /\ UNCHANGED <<taxon_genome, extant_gene_map>>
           ELSE /\ nodes' = bound.nodes
                /\ taxon_genome' = add_gene(taxon_genome, current_species, gene)
                /\ extant_gene_map' = [extant_gene_map EXCEPT ![id] = gene]
                /\ UNCHANGED <<status, error>>
    /\ UNCHANGED <<current_species, hog_stack, toplevel_hogs, fixedVars, history>>

\* the geneRef handler when a geneRef outside every group is skipped
StartGeneRefSkipsStray(id) ==
    /\ status = "parsing"
    /\ IF hog_stack = <<>>
       THEN UNCHANGED <<nodes, status, error>>
       ELSE IF extant_gene_map[id] = 0
       THEN Raise("KeyError") /\ UNCHANGED nodes
       ELSE /\ Len(nodes[hog_stack[Len(hog_stack)]].children) < limits.children
            /\ nodes' = add_child(nodes, hog_stack[Len(hog_stack)],
                                  extant_gene_map[id]).nodes
            /\ UNCHANGED <<status, error>>
    /\ history' = [history EXCEPT !.stray_ref = @ \/ hog_stack = <<>>]
    /\ UNCHANGED <<taxon_genome, extant_gene_map, current_species, hog_stack,
                   toplevel_hogs, fixedVars>>

StartGeneRef(id) ==
    /\ status = "parsing"
    /\ IF extant_gene_map[id] = 0
       THEN Raise("KeyError") /\ UNCHANGED nodes
       ELSE IF hog_stack = <<>>
       THEN Raise("IndexError") /\ UNCHANGED nodes
       ELSE /\ Len(nodes[Last(hog_stack)].children) < limits.children
            /\ LET r == add_child(nodes, Last(hog_stack), extant_gene_map[id])
               IN  IF r.ok
                   THEN nodes' = r.nodes /\ UNCHANGED <<status, error>>
                   ELSE Raise(r.err) /\ UNCHANGED nodes
    /\ history' = [history EXCEPT !.stray_ref = @ \/ hog_stack = <<>>]
    /\ UNCHANGED <<taxon_genome, extant_gene_map, current_species, hog_stack,
                   toplevel_hogs, fixedVars>>

\* the orthologGroup start handler when the new HOG is put at the bottom of the stack
StartOrthologGroupPushesFront(id) ==
    /\ status = "parsing"
    /\ current_species = None
    /\ Cardinality(HOGs) < limits.hogs
    /\ Cardinality(history.groups) < limits.groups
    /\ LET hog == Len(nodes) + 1
           created == Append(nodes, NewHOG(id))
       IN  IF Len(hog_stack) > 0
           THEN /\ Len(nodes[Last(hog_stack)].children) < limits.children
                /\ LET r == add_child(created, Last(hog_stack), hog)
                   IN  IF r.ok
                       THEN /\ nodes' = r.nodes
                            /\ hog_stack' = <<hog>> \o hog_stack
                            /\ UNCHANGED <<status, error>>
                       ELSE /\ Raise(r.err)
                            /\ nodes' = created
                            /\ UNCHANGED hog_stack
           ELSE /\ nodes' = created
                /\ hog_stack' = <<hog>> \o hog_stack
                /\ UNCHANGED <<status, error>>
    /\ history' = [history EXCEPT
                       !.groups = @ \cup {Len(nodes) + 1},
                       !.document_roots =
                           IF Len(hog_stack) > 0 THEN @ ELSE @ \cup {Len(nodes) + 1}]
    /\ UNCHANGED <<taxon_genome, extant_gene_map, current_species, toplevel_hogs,
                   fixedVars>>

StartOrthologGroup(id) ==
    /\ status = "parsing"
    /\ current_species = None
    /\ Cardinality(HOGs) < limits.hogs
    /\ Cardinality(history.groups) < limits.groups
    /\ LET hog == Len(nodes) + 1
           created == Append(nodes, NewHOG(id))
       IN  IF Len(hog_stack) > 0
           THEN /\ Len(nodes[Last(hog_stack)].children) < limits.children
                /\ LET r == add_child(created, Last(hog_stack), hog)
                   IN  IF r.ok
                       THEN /\ nodes' = r.nodes
                            /\ hog_stack' = Append(hog_stack, hog)
                            /\ UNCHANGED <<status, error>>
                       ELSE /\ Raise(r.err)
                            /\ nodes' = created
                            /\ UNCHANGED hog_stack
           ELSE /\ nodes' = created
                /\ hog_stack' = Append(hog_stack, hog)
                /\ UNCHANGED <<status, error>>
    /\ history' = [history EXCEPT
                       !.groups = @ \cup {Len(nodes) + 1},
                       !.document_roots =
                           IF Len(hog_stack) > 0 THEN @ ELSE @ \cup {Len(nodes) + 1}]
    /\ UNCHANGED <<taxon_genome, extant_gene_map, current_species, toplevel_hogs,
                   fixedVars>>

StartProperty(name) ==
    /\ status = "parsing"
    /\ IF name = None THEN Raise("KeyError") ELSE UNCHANGED <<status, error>>
    /\ UNCHANGED <<nodes, taxon_genome, extant_gene_map, current_species, hog_stack,
                   toplevel_hogs, fixedVars, history>>

\* float(): the strings Python reads as a number
IsFloat(value) == value \in {"0.5"}

StartScore(id, value) ==
    /\ status = "parsing"
    /\ Cardinality({n \in DOMAIN nodes : nodes[n].scores # <<>>}) < MaxScores
    /\ IF hog_stack = <<>>
       THEN Raise("IndexError") /\ UNCHANGED nodes
       ELSE IF ~IsFloat(value)
       THEN Raise("ValueError") /\ UNCHANGED nodes
       ELSE /\ nodes' = score(nodes, Last(hog_stack), id, value)
            /\ UNCHANGED <<status, error>>
    /\ UNCHANGED <<taxon_genome, extant_gene_map, current_species, hog_stack,
                   toplevel_hogs, fixedVars, history>>

\* a start event of any other tag (paralogGroup, groups, notes, ...)
StartOther ==
    /\ status = "parsing"
    /\ UNCHANGED vars

EndSpecies ==
    /\ status = "parsing"
    /\ InSpeciesSection
    /\ current_species' = None
    /\ UNCHANGED <<nodes, taxon_genome, extant_gene_map, hog_stack, toplevel_hogs,
                   status, error, fixedVars, history>>

\* an end event of any tag but species and orthologGroup
EndOther ==
    /\ status = "parsing"
    /\ UNCHANGED vars

RECURSIVE Distinct(_)
\* the keys of the dict `change`, in insertion order
Distinct(s) ==
    IF s = <<>> THEN <<>>
    ELSE <<Head(s)>> \o Distinct(SelectSeq(Tail(s), LAMBDA x : x # Head(s)))

\* the dict `change` of end(): the children to reconcile, each with its path
Change(tax, ns, hog) ==
    LET needs(child) ==
            Depth(tax, ns[hog].genome) # Depth(tax, ns[child].genome) - 1
        keys == SelectSeq(Distinct(ns[hog].children), needs)
    IN  [i \in DOMAIN keys |->
            [hog_child |-> keys[i],
             missing |-> get_path_up(tax, ns[keys[i]].genome, ns[hog].genome)]]

\* the loop of end() when it stops after the first child
ReconcileFirstOnly(tax, ns, tg, hog, change) ==
    IF change = <<>>
    THEN [ok |-> TRUE, err |-> None, nodes |-> ns, taxon_genome |-> tg]
    ELSE _add_missing_taxon(tax, ns, tg, Head(change).hog_child, hog,
                            Head(change).missing)

RECURSIVE Reconcile(_, _, _, _, _)
\* the loop of end() over change.items()
Reconcile(tax, ns, tg, hog, change) ==
    IF change = <<>>
    THEN [ok |-> TRUE, err |-> None, nodes |-> ns, taxon_genome |-> tg]
    ELSE LET r == _add_missing_taxon(tax, ns, tg, Head(change).hog_child, hog,
                                     Head(change).missing)
         IN  IF ~r.ok THEN r
             ELSE Reconcile(tax, r.nodes, r.taxon_genome, hog, Tail(change))

\* hog_filter: none supplied, or a predicate that accepts the HOGs carrying an id
Filters == {"default", "has_id"}

\* self.filter(hog): the default filter returns the HOG itself, which is truthy
filter_res(flt, ns, hog) ==
    IF flt = "default" THEN TRUE ELSE ns[hog].id # None

EndOrthologGroup ==
    /\ status = "parsing"
    /\ IF hog_stack = <<>>
       THEN /\ Raise("IndexError")
            /\ UNCHANGED <<nodes, taxon_genome, hog_stack, toplevel_hogs>>
       ELSE LET hog == Last(hog_stack)
                g == _get_ancestral_genome_by_mrca_of_hog_children_genomes(
                         Up, nodes, taxon_genome, hog)
            IN  /\ hog_stack' = Front(hog_stack)
                /\ IF ~g.ok
                   THEN /\ Raise(g.err)
                        /\ UNCHANGED <<nodes, taxon_genome, toplevel_hogs>>
                   ELSE LET b == set_genome(nodes, hog, g.genome)
                            tg == add_gene(g.taxon_genome, g.genome, hog)
                            r == Reconcile(Up, b.nodes, tg, hog, Change(Up, b.nodes, hog))
                        IN  IF ~b.ok
                            THEN /\ Raise(b.err)
                                 /\ nodes' = b.nodes
                                 /\ taxon_genome' = g.taxon_genome
                                 /\ UNCHANGED toplevel_hogs
                            ELSE /\ Cardinality({n \in DOMAIN r.nodes :
                                                    r.nodes[n].kind = "hog"}) <= limits.hogs
                                 /\ nodes' = r.nodes
                                 /\ taxon_genome' = r.taxon_genome
                                 /\ IF ~r.ok
                                    THEN Raise(r.err) /\ UNCHANGED toplevel_hogs
                                    ELSE /\ UNCHANGED <<status, error>>
                                         /\ IF Len(hog_stack') = 0
                                               /\ filter_res(filter, r.nodes, hog)
                                            THEN toplevel_hogs' =
                                                     [toplevel_hogs EXCEPT
                                                         ![r.nodes[hog].id] = hog]
                                            ELSE UNCHANGED toplevel_hogs
    /\ history' =
           IF status' = "parsing" /\ hog_stack # <<>> /\ hog_stack' = <<>>
                  /\ filter_res(filter, nodes', Last(hog_stack))
           THEN [history EXCEPT !.accepted = @ \cup {Last(hog_stack)}]
           ELSE history
    /\ UNCHANGED <<extant_gene_map, current_species, fixedVars>>

\* the end of the event stream
Close ==
    /\ status = "parsing"
    /\ status' = "closed"
    /\ UNCHANGED <<nodes, taxon_genome, extant_gene_map, current_species, hog_stack,
                   toplevel_hogs, error, fixedVars, history>>

\* what _build_hogs_and_genes hands to its caller once the stream is consumed:
\* None while nothing is returned, Absent when reading a missing attribute raises
ConstructionResult ==
    IF status # "closed" THEN None
    ELSE IF external_id_mapper = Absent THEN Absent
    ELSE [toplevel_hogs |-> toplevel_hogs, extant_gene_map |-> extant_gene_map,
          external_id_mapper |-> external_id_mapper]

Next ==
    \/ \E name \in SpeciesNames(Up) : StartSpecies(name)
    \/ \E id \in GeneIds, geneId \in ExtIds : StartGene(id, geneId)
    \/ \E id \in GeneRefIds : StartGeneRef(id)
    \/ \E id \in HogIds : StartOrthologGroup(id)
    \/ \E name \in PropertyNames : StartProperty(name)
    \/ \E id \in ScoreIds, value \in ScoreValues : StartScore(id, value)
    \/ StartOther
    \/ EndSpecies
    \/ EndOrthologGroup
    \/ EndOther
    \/ Close

Spec == Init /\ [][Next]_vars

\* The parser after the species section of a document with one gene per species:
\* g1 of human, g2 of mouse (T1) or chimp (T2), g3 of chicken.
SpeciesOf(nw) ==
    <<"human", IF nw = "T1" THEN "mouse" ELSE "chimp", "chicken">>

InitGroups ==
    /\ newick \in Newicks
    /\ filter \in Filters
    /\ nodes = [i \in 1..3 |->
                   [NewGene(<<"g1", "g2", "g3">>[i], "x") EXCEPT
                        !.genome = SpeciesOf(newick)[i]]]
    /\ taxon_genome =
           [t \in DOMAIN Taxonomy(newick) |->
               IF \E i \in 1..3 : SpeciesOf(newick)[i] = t
               THEN [kind |-> "extant",
                     genes |-> {i \in 1..3 : SpeciesOf(newick)[i] = t},
                     serial |-> 1]
               ELSE NoGenome]
    /\ extant_gene_map = [k \in GeneRefIds |->
                             CHOOSE i \in 1..3 : <<"g1", "g2", "g3">>[i] = k]
    /\ external_id_mapper = Absent
    /\ current_species = None
    /\ hog_stack = <<>>
    /\ toplevel_hogs = [k \in HogIds |-> 0]
    /\ status = "parsing"
    /\ error = None
    /\ history = NoHistory
    /\ limits = DefaultLimits
    /\ workers = <<>>

NextGroups ==
    \/ \E id \in GeneRefIds : StartGeneRef(id)
    \/ \E id \in HogIds : StartOrthologGroup(id)
    \/ \E name \in PropertyNames : StartProperty(name)
    \/ \E id \in ScoreIds, value \in ScoreValues : StartScore(id, value)
    \/ StartOther
    \/ EndOrthologGroup
    \/ EndOther
    \/ Close

SpecGroups == InitGroups /\ [][NextGroups]_vars

\* The groups section of a document that holds one group, of up to
\* MaxOneGroupChildren children.
InitOneGroup ==
    /\ newick \in Newicks
    /\ filter = "default"
    /\ nodes = [i \in 1..3 |->
                   [NewGene(<<"g1", "g2", "g3">>[i], "x") EXCEPT
                        !.genome = SpeciesOf(newick)[i]]]
    /\ taxon_genome =
           [t \in DOMAIN Taxonomy(newick) |->
               IF \E i \in 1..3 : SpeciesOf(newick)[i] = t
               THEN [kind |-> "extant",
                     genes |-> {i \in 1..3 : SpeciesOf(newick)[i] = t},
                     serial |-> 1]
               ELSE NoGenome]
    /\ extant_gene_map = [k \in GeneRefIds |->
                             CHOOSE i \in 1..3 : <<"g1", "g2", "g3">>[i] = k]
    /\ external_id_mapper = Absent
    /\ current_species = None
    /\ hog_stack = <<>>
    /\ toplevel_hogs = [k \in HogIds |-> 0]
    /\ status = "parsing"
    /\ error = None
    /\ history = NoHistory
    /\ limits = [hogs |-> MaxOneGroupHogs, children |-> MaxOneGroupChildren,
                 groups |-> 1]
    /\ workers = <<>>

NextOneGroup ==
    \/ \E id \in GeneRefIds : StartGeneRef(id)
    \/ \E id \in HogIds : StartOrthologGroup(id)
    \/ \E id \in ScoreIds, value \in ScoreValues : StartScore(id, value)
    \/ EndOrthologGroup
    \/ Close

SpecOneGroup == InitOneGroup /\ [][NextOneGroup]_vars

\* Two calls of _add_missing_taxon for two children of one HOG, run side by side
\* one statement at a time.  The HOG is node 4, a vertebrate group over the
\* three genes, as end() has it after binding it and computing `change`.
MidGene(nw, i) ==
    [NewGene(<<"g1", "g2", "g3">>[i], "x") EXCEPT
         !.genome = SpeciesOf(nw)[i], !.parent = 4]

MidNodes(nw) ==
    <<MidGene(nw, 1), MidGene(nw, 2), MidGene(nw, 3),
      [NewHOG(None) EXCEPT !.genome = "vertebrate", !.children = <<1, 2, 3>>]>>

MidGenomes(nw) ==
    [t \in DOMAIN Taxonomy(nw) |->
        IF \E i \in 1..3 : SpeciesOf(nw)[i] = t
        THEN [kind |-> "extant", genes |-> {i \in 1..3 : SpeciesOf(nw)[i] = t},
              serial |-> 1]
        ELSE IF t = "vertebrate"
        THEN [kind |-> "ancestral", genes |-> {4}, serial |-> 1]
        ELSE NoGenome]

\* a call that has not started: the arguments end() passes for the entry e of
\* `change`, and the locals of _add_missing_taxon
NewWorker(e) ==
    [pc |-> "remove", child_hog |-> e.hog_child, oldest_hog |-> 4,
     missing_taxons |-> e.missing, todo |-> e.missing,
     current_child |-> e.hog_child, ancestral_genome |-> None, hog |-> 0]

InitWorkers ==
    /\ newick \in Newicks
    /\ filter = "default"
    /\ nodes = MidNodes(newick)
    /\ taxon_genome = MidGenomes(newick)
    /\ extant_gene_map = [k \in GeneRefIds |->
                             CHOOSE i \in 1..3 : <<"g1", "g2", "g3">>[i] = k]
    /\ external_id_mapper = Absent
    /\ current_species = None
    /\ hog_stack = <<>>
    /\ toplevel_hogs = [k \in HogIds |-> 0]
    /\ status = "parsing"
    /\ error = None
    /\ history = [NoHistory EXCEPT !.groups = {4}, !.document_roots = {4}]
    /\ limits = DefaultLimits
    /\ LET change == Change(Taxonomy(newick), MidNodes(newick), 4)
       IN  \E i, j \in DOMAIN change :
               /\ i < j
               /\ workers = <<NewWorker(change[i]), NewWorker(change[j])>>

workerFrame == <<newick, filter, external_id_mapper, limits, extant_gene_map,
                 current_species, hog_stack, toplevel_hogs, history>>

\* oldest_hog.remove_child(child_hog); current_child = child_hog
WorkerRemove(w) ==
    /\ status = "parsing"
    /\ workers[w].pc = "remove"
    /\ LET r == remove_child(nodes, workers[w].oldest_hog, workers[w].child_hog)
       IN  IF r.ok
           THEN /\ nodes' = r.nodes
                /\ workers' = [workers EXCEPT
                                   ![w].pc = IF workers[w].todo = <<>> THEN "attach"
                                             ELSE "get"]
                /\ UNCHANGED <<status, error>>
           ELSE /\ Raise(r.err)
                /\ workers' = [workers EXCEPT ![w].pc = "failed"]
                /\ UNCHANGED nodes
    /\ UNCHANGED <<taxon_genome, workerFrame>>

\* the lookup when its test for an attached genome was made before the other
\* call attached one
WorkerGetGenomeUnsynchronised(w) ==
    /\ status = "parsing"
    /\ workers[w].pc = "get"
    /\ LET tax == Head(workers[w].todo)
           g == IF MidGenomes(newick)[tax].kind # None
                THEN _get_ancestral_genome_by_taxon(taxon_genome, tax)
                ELSE [taxon_genome |->
                          add_genome_to_node(taxon_genome, tax, "ancestral"),
                      genome |-> tax]
       IN  /\ taxon_genome' = g.taxon_genome
           /\ workers' = [workers EXCEPT
                              ![w].pc = "create",
                              ![w].ancestral_genome =
                                  <<g.genome, g.taxon_genome[g.genome].serial>>]
    /\ UNCHANGED <<nodes, status, error, workerFrame>>

\* ancestral_genome = self._get_ancestral_genome_by_taxon(tax), as one step
WorkerGetGenome(w) ==
    /\ status = "parsing"
    /\ workers[w].pc = "get"
    /\ LET g == _get_ancestral_genome_by_taxon(taxon_genome, Head(workers[w].todo))
       IN  /\ taxon_genome' = g.taxon_genome
           /\ workers' = [workers EXCEPT
                              ![w].pc = "create",
                              ![w].ancestral_genome =
                                  <<g.genome, g.taxon_genome[g.genome].serial>>]
    /\ UNCHANGED <<nodes, status, error, workerFrame>>

\* hog = HOG(); hog.set_genome(ancestral_genome); ancestral_genome.add_gene(hog):
\* the HOG goes to the Genome object the call holds, which the taxonomic node
\* holds too unless another one has replaced it there
WorkerCreateHOG(w) ==
    /\ status = "parsing"
    /\ workers[w].pc = "create"
    /\ LET hog == Len(nodes) + 1
           tax == workers[w].ancestral_genome[1]
       IN  /\ nodes' = set_genome(Append(nodes, NewHOG(None)), hog, tax).nodes
           /\ taxon_genome' =
                  IF taxon_genome[tax].serial = workers[w].ancestral_genome[2]
                  THEN add_gene(taxon_genome, tax, hog)
                  ELSE taxon_genome
           /\ workers' = [workers EXCEPT ![w].pc = "check", ![w].hog = hog]
    /\ UNCHANGED <<status, error, workerFrame>>

\* if ancestral_genome.taxon is not current_child.genome.taxon.up: raise
WorkerCheck(w) ==
    /\ status = "parsing"
    /\ workers[w].pc = "check"
    /\ IF workers[w].ancestral_genome[1] # Up[nodes[workers[w].current_child].genome]
       THEN /\ Raise("TypeError")
            /\ workers' = [workers EXCEPT ![w].pc = "failed"]
       ELSE /\ workers' = [workers EXCEPT ![w].pc = "link"]
            /\ UNCHANGED <<status, error>>
    /\ UNCHANGED <<nodes, taxon_genome, workerFrame>>

\* hog.add_child(current_child); current_child = hog; next tax
WorkerLink(w) ==
    /\ status = "parsing"
    /\ workers[w].pc = "link"
    /\ nodes' = add_child(nodes, workers[w].hog, workers[w].current_child).nodes
    /\ workers' = [workers EXCEPT
                       ![w].current_child = workers[w].hog,
                       ![w].todo = Tail(@),
                       ![w].pc = IF Tail(workers[w].todo) = <<>> THEN "attach"
                                 ELSE "get"]
    /\ UNCHANGED <<taxon_genome, status, error, workerFrame>>

\* oldest_hog.add_child(current_child)
WorkerAttach(w) ==
    /\ status = "parsing"
    /\ workers[w].pc = "attach"
    /\ nodes' = add_child(nodes, workers[w].oldest_hog, workers[w].current_child).nodes
    /\ workers' = [workers EXCEPT ![w].pc = "done"]
    /\ UNCHANGED <<taxon_genome, status, error, workerFrame>>

NextWorkers ==
    \/ \E w \in DOMAIN workers : WorkerRemove(w)
    \/ \E w \in DOMAIN workers : WorkerGetGenome(w)
    \/ \E w \in DOMAIN workers : WorkerCreateHOG(w)
    \/ \E w \in DOMAIN workers : WorkerCheck(w)
    \/ \E w \in DOMAIN workers : WorkerLink(w)
    \/ \E w \in DOMAIN workers : WorkerAttach(w)

SpecWorkers == InitWorkers /\ [][NextWorkers]_vars

\* The species section alone, over a taxonomy that may hold an ambiguous name.
InitSpecies ==
    /\ newick \in {"T1", "T3"}
    /\ filter = "default"
    /\ nodes = <<>>
    /\ taxon_genome = [t \in DOMAIN Taxonomy(newick) |-> NoGenome]
    /\ extant_gene_map = [k \in GeneRefIds |-> 0]
    /\ external_id_mapper = Absent
    /\ current_species = None
    /\ hog_stack = <<>>
    /\ toplevel_hogs = [k \in HogIds |-> 0]
    /\ status = "parsing"
    /\ error = None
    /\ history = NoHistory
    /\ limits = DefaultLimits
    /\ workers = <<>>

NextSpecies ==
    \/ \E name \in SpeciesNames(Up) : StartSpecies(name)
    \/ \E id \in GeneIds, geneId \in ExtIds : StartGene(id, geneId)
    \/ \E name \in PropertyNames : StartProperty(name)
    \/ StartOther
    \/ EndSpecies
    \/ EndOther
    \/ Close

SpecSpecies == InitSpecies /\ [][NextSpecies]_vars

\* ------------------------------------------------------------------- claims
Children(ns, h) == Range(ns[h].children)

RECURSIVE Closure(_, _)
\* S with everything reachable from it along the children lists
Closure(ns, S) ==
    LET T == S \cup UNION {Children(ns, n) : n \in S}
    IN  IF T = S THEN S ELSE Closure(ns, T)

\* the nodes of the forest the parser has registered
Forest == Closure(nodes, {toplevel_hogs[k] : k \in HogIds} \ {0})

GenomeDepth(n) == Depth(Up, nodes[n].genome)

\* C1: when the stream has been consumed without an error, every HOG reachable
\* from toplevel_hogs is exactly one taxonomic level above each of its children.
C1_DepthInvariant ==
    status = "closed" =>
        \A h \in Forest : \A c \in Children(nodes, h) :
            /\ nodes[h].genome # None
            /\ nodes[c].genome # None
            /\ GenomeDepth(c) = GenomeDepth(h) + 1

\* C2: parent pointers and children lists agree: x.parent is P exactly when x is
\* among P's children.
C2_ParentChildAgree ==
    \A x \in DOMAIN nodes : \A P \in HOGs :
        (nodes[x].parent = P) <=> (x \in Children(nodes, P))

\* C7: a stream that ends while a group is still open does not complete: every
\* completed parse ends with an empty stack.
C7_ClosedStackEmpty == status = "closed" => hog_stack = <<>>

\* the Gene objects a gene event has created and registered
CreatedGenes == {n \in Genes : nodes[n].genome # None}

\* C8: after a completed parse every Gene created by a gene event is the value
\* stored under its unique id, and every set of external_id_mapper holds only
\* keys of extant_gene_map.
C8_GeneMapsComplete ==
    (status = "closed" /\ CreatedGenes # {}) =>
        /\ \A n \in CreatedGenes : extant_gene_map[nodes[n].id] = n
        /\ external_id_mapper # Absent
        /\ \A e \in DOMAIN external_id_mapper :
               \A u \in external_id_mapper[e] : extant_gene_map[u] # 0

\* C9: two gene events with the same external id and distinct unique ids leave
\* external_id_mapper[that id] equal to the set of the two unique ids.
C9_SharedExternalId ==
    \A a, b \in CreatedGenes :
        (nodes[a].gene_id = nodes[b].gene_id /\ nodes[a].gene_id # None
            /\ nodes[a].id # nodes[b].id) =>
        /\ external_id_mapper # Absent
        /\ external_id_mapper[nodes[a].gene_id] = {nodes[a].id, nodes[b].id}

\* C10: a key of extant_gene_map or of toplevel_hogs, once written, keeps its
\* value for the rest of the construction.
C10_WriteOnce ==
    [][/\ \A k \in GeneRefIds :
              extant_gene_map[k] # 0 => extant_gene_map'[k] = extant_gene_map[k]
       /\ \A k \in HogIds :
              toplevel_hogs[k] # 0 => toplevel_hogs'[k] = toplevel_hogs[k]]_vars

\* the HOGs that reconciliation has created
Synthetic == HOGs \ history.groups

Parents(ns, x) == {p \in DOMAIN ns : x \in Children(ns, p)}

Occurrences(seq, x) == Cardinality({i \in DOMAIN seq : seq[i] = x})

RECURSIVE ParentAt(_, _, _)
\* the i-th node above n along the parent pointers (0: there is none)
ParentAt(ns, n, i) ==
    IF i = 0 \/ n = 0 THEN n ELSE ParentAt(ns, ns[n].parent, i - 1)

\* C3: the children relation over HOGs has no cycle, every HOG that is not a
\* document root has exactly one parent, and add_child(self) as well as
\* _add_missing_taxon with the parent as the child raise and change nothing.
C3_AcyclicSingleParent ==
    /\ \A h \in HOGs : h \notin Closure(nodes, Children(nodes, h))
    /\ \A h \in HOGs \ history.document_roots :
           /\ nodes[h].parent \in HOGs
           /\ Parents(nodes, h) = {nodes[h].parent}
           /\ Occurrences(nodes[nodes[h].parent].children, h) = 1
    /\ \A h \in HOGs :
           /\ add_child(nodes, h, h) =
                  [ok |-> FALSE, err |-> "EvolutionaryConceptError", nodes |-> nodes]
           /\ \A missing \in {<<>>} \cup {<<t>> : t \in DOMAIN Up} :
                  _add_missing_taxon(Up, nodes, taxon_genome, h, h, missing) =
                      [ok |-> FALSE, err |-> "TypeError", nodes |-> nodes,
                       taxon_genome |-> taxon_genome]

\* a nested group that reconciliation has moved under a synthetic HOG
C3_Witness ==
    /\ status = "closed"
    /\ \E h \in history.groups \ history.document_roots :
           /\ nodes[h].parent \in Synthetic
           /\ nodes[nodes[h].parent].parent \in history.document_roots

\* the only group of the document so far is open and holds a human gene and a
\* chicken gene
C4_Scenario ==
    /\ newick = "T1"
    /\ status = "parsing"
    /\ Len(hog_stack) = 1
    /\ HOGs = {hog_stack[1]}
    /\ Len(nodes[hog_stack[1]].children) = 2
    /\ {nodes[c].genome : c \in Children(nodes, hog_stack[1])} = {"human", "chicken"}

C4_Outcome(ns, r, a, b) ==
    LET hogs == {n \in DOMAIN ns : ns[n].kind = "hog"}
    IN  /\ ns[r].genome = "vertebrate"
        /\ \E s1, s2 \in hogs \ {r} :
               /\ s1 # s2
               /\ hogs = {r, s1, s2}
               /\ ns[s1].genome = "mammal" /\ ns[s1].children = <<a>>
               /\ ns[s2].genome = "bird" /\ ns[s2].children = <<b>>
               /\ ns[s1].id = None /\ ns[s2].id = None
               /\ ns[s1].parent = r /\ ns[s2].parent = r
               /\ ns[a].parent = s1 /\ ns[b].parent = s2
               /\ Len(ns[r].children) = 2
               /\ Range(ns[r].children) = {s1, s2}

\* C4: in T1, closing a single root group that holds a human gene and a chicken
\* gene binds the root to vertebrate and leaves exactly two synthetic HOGs, one
\* of mammal over the human gene and one of bird over the chicken gene, as the
\* only children of the root.
C4_HumanChickenRoot ==
    [][(C4_Scenario /\ hog_stack' = <<>>) =>
           LET r == hog_stack[1]
               a == CHOOSE c \in Children(nodes, r) : nodes[c].genome = "human"
               b == CHOOSE c \in Children(nodes, r) : nodes[c].genome = "chicken"
           IN  /\ status' = "parsing"
               /\ C4_Outcome(nodes', r, a, b)
               /\ toplevel_hogs'[nodes[r].id] = r]_vars

C4_Witness ==
    /\ status = "closed"
    /\ newick = "T1"
    /\ Cardinality(history.groups) = 1
    /\ \E r \in history.document_roots : \E a, b \in Genes :
           /\ nodes[a].genome = "human"
           /\ nodes[b].genome = "chicken"
           /\ C4_Outcome(nodes, r, a, b)

\* how many taxonomic levels child c lies below the genome tax_node of its HOG
LevelsBelow(ns, c, tax_node) == Depth(Up, ns[c].genome) - Depth(Up, tax_node)

RECURSIVE SumInserted(_, _, _)
SumInserted(ns, S, tax_node) ==
    IF S = {} THEN 0
    ELSE LET c == CHOOSE x \in S : TRUE
             k == LevelsBelow(ns, c, tax_node)
         IN  (IF k >= 2 THEN k - 1 ELSE 0) + SumInserted(ns, S \ {c}, tax_node)

\* in ns2, child c hangs under P by a chain of k-1 fresh HOGs, the i-th of them
\* bound to the i-th taxonomic ancestor of c's taxon
C5_Chain(ns1, ns2, P, c, k) ==
    /\ ParentAt(ns2, c, k) = P
    /\ ParentAt(ns2, c, k - 1) \in Children(ns2, P)
    /\ \A i \in 1..(k - 1) :
           LET s == ParentAt(ns2, c, i)
           IN  /\ s \in DOMAIN ns2 \ DOMAIN ns1
               /\ ns2[s].kind = "hog"
               /\ ns2[s].id = None
               /\ ns2[s].genome = Lineage(Up, ns1[c].genome)[i + 1]
               /\ ns2[s].children = <<ParentAt(ns2, c, i - 1)>>

\* C5: a group end that succeeds puts every child lying k >= 2 levels below the
\* group's taxon under a chain of exactly k-1 new HOGs bound to the taxonomic
\* ancestors of the child, nearest first; the group creates no other HOG, it is
\* bound to the MRCA genome of its children and the children keep their genomes.
C5_ChainInserted ==
    [][(hog_stack # <<>> /\ hog_stack' = Front(hog_stack) /\ status' = "parsing") =>
           LET P == Last(hog_stack)
               tax_node == get_common_ancestor(
                               Up, {nodes[c].genome : c \in Children(nodes, P)})
           IN  /\ nodes'[P].genome = tax_node
               /\ \A c \in Children(nodes, P) :
                      /\ nodes'[c].genome = nodes[c].genome
                      /\ LevelsBelow(nodes, c, tax_node) >= 2 =>
                             C5_Chain(nodes, nodes', P, c,
                                      LevelsBelow(nodes, c, tax_node))
               /\ Len(nodes') - Len(nodes) =
                      SumInserted(nodes, Children(nodes, P), tax_node)]_vars

\* a human gene three levels below its vertebrate root, under two synthetic HOGs
C5_Witness ==
    /\ newick = "T2"
    /\ status = "parsing"
    /\ \E c \in Genes, P \in history.document_roots :
           /\ nodes[c].genome = "human"
           /\ nodes[P].genome = "vertebrate"
           /\ ParentAt(nodes, c, 3) = P
           /\ ParentAt(nodes, c, 1) \in Synthetic
           /\ ParentAt(nodes, c, 2) \in Synthetic
           /\ nodes[ParentAt(nodes, c, 1)].genome = "primate"
           /\ nodes[ParentAt(nodes, c, 2)].genome = "mammal"
           /\ Cardinality(Synthetic) = 2

\* C6: once a geneRef event has arrived while no group was open, the parse has
\* failed with the lookup or index error of that event and nothing is returned.
C6_StrayGeneRefFails ==
    history.stray_ref =>
        /\ status = "failed"
        /\ error \in {"KeyError", "IndexError"}
        /\ ConstructionResult = None

\* a geneRef to a registered gene that arrived outside every group
C6_Witness ==
    /\ history.stray_ref
    /\ error = "IndexError"
    /\ Genes # {}

\* C11: the values of toplevel_hogs are exactly the HOGs whose orthologGroup end
\* left the stack empty and which the filter accepted (all of them without a
\* filter); no nested and no synthetic HOG is ever among them.
C11_TopLevelIffAccepted ==
    LET registered == {toplevel_hogs[k] : k \in HogIds} \ {0}
    IN  /\ registered = history.accepted
        /\ registered \cap Synthetic = {}
        /\ registered \subseteq history.document_roots
        /\ filter = "default" =>
               \A h \in history.document_roots :
                   (nodes[h].genome # None /\ h \notin Range(hog_stack)
                        /\ status # "failed") => h \in registered

\* C12: a taxonomic node that has a Genome keeps that very Genome: no step
\* attaches another one or changes its kind or forgets the genes it holds, and
\* asking again for the genome of that node (by taxon, or by name for a species)
\* returns the attached Genome and creates nothing.
C12_OneGenomePerTaxon ==
    [][\A t \in DOMAIN taxon_genome :
           taxon_genome[t].serial # 0 =>
               /\ taxon_genome'[t].serial = 1
               /\ taxon_genome'[t].kind = taxon_genome[t].kind
               /\ taxon_genome[t].genes \subseteq taxon_genome'[t].genes
               /\ _get_ancestral_genome_by_taxon(taxon_genome, t) =
                      [taxon_genome |-> taxon_genome, genome |-> t]
               /\ \A name \in SpeciesNames(Up) :
                      search_nodes(Up, name) = {t} =>
                          _get_extant_genome_by_name(Up, taxon_genome, name) =
                              [ok |-> TRUE, err |-> None,
                               taxon_genome |-> taxon_genome, genome |-> t]]_vars

\* the one ancestral genome of mammal holds two HOGs: it was asked for twice
C12_Witness ==
    /\ taxon_genome["mammal"] =
           [kind |-> "ancestral", genes |-> taxon_genome["mammal"].genes, serial |-> 1]
    /\ Cardinality(taxon_genome["mammal"].genes \cap HOGs) = 2
    /\ taxon_genome["human"].kind = "extant"
    /\ taxon_genome["mouse"].kind = "extant"

\* C13: a group end that succeeds binds the popped HOG, unbound until then, to
\* the genome attached to the MRCA node of the genomes its children have when
\* the event arrives, and registers it with that genome; the reconciliation
\* works from this binding: every HOG it creates is bound strictly below it.
C13_BoundToMrcaFirst ==
    [][(hog_stack # <<>> /\ hog_stack' = Front(hog_stack) /\ status' = "parsing") =>
           LET P == Last(hog_stack)
               mrca == get_common_ancestor(
                           Up, {nodes[c].genome : c \in Children(nodes, P)})
           IN  /\ nodes[P].genome = None
               /\ nodes'[P].genome = mrca
               /\ taxon_genome'[mrca].kind = "ancestral"
               /\ P \in taxon_genome'[mrca].genes
               /\ \A s \in DOMAIN nodes' \ DOMAIN nodes :
                      /\ nodes'[s].genome # mrca
                      /\ mrca \in Range(Lineage(Up, nodes'[s].genome))
                      /\ P \in {ParentAt(nodes', s, i) : i \in 1..2}]_vars

\* a group bound to vertebrate, held by that genome, over a synthetic HOG
C13_Witness ==
    /\ status = "parsing"
    /\ \E h \in history.groups :
           /\ nodes[h].genome = "vertebrate"
           /\ h \in taxon_genome["vertebrate"].genes
           /\ \E s \in Synthetic : nodes[s].parent = h

\* C14: the end of a group whose children have fewer than two distinct genomes
\* (no child, one child, several children of one genome) fails with ValueError;
\* the HOG stays unbound, no genome is created and toplevel_hogs is not written.
C14_FewerThanTwoGenomesFails ==
    [][(hog_stack # <<>> /\ hog_stack' = Front(hog_stack)
            /\ Cardinality({nodes[c].genome :
                                c \in Children(nodes, Last(hog_stack))}) < 2) =>
           /\ status' = "failed"
           /\ error' = "ValueError"
           /\ nodes'[Last(hog_stack)].genome = None
           /\ nodes' = nodes
           /\ taxon_genome' = taxon_genome
           /\ toplevel_hogs' = toplevel_hogs
           /\ \A k \in HogIds : toplevel_hogs'[k] # Last(hog_stack)]_vars

\* a group with two children of the same genome was closed
C14_Witness ==
    /\ status = "failed"
    /\ error = "ValueError"
    /\ \E h \in HOGs \ Range(hog_stack) :
           /\ Len(nodes[h].children) = 2
           /\ Cardinality({nodes[c].genome : c \in Children(nodes, h)}) = 1
           /\ nodes[h].genome = None
           /\ \A k \in HogIds : toplevel_hogs[k] # h

\* on every bound node of ns, set_genome with another genome raises and changes
\* nothing, and set_genome with the genome it has succeeds and changes nothing
C15_Rebinding(ns) ==
    \A n \in DOMAIN ns :
        ns[n].genome # None =>
            \A g2 \in DOMAIN Up \cup {None} :
                set_genome(ns, n, g2) =
                    IF g2 = ns[n].genome
                    THEN [ok |-> TRUE, err |-> None, nodes |-> ns]
                    ELSE [ok |-> FALSE, err |-> "EvolutionaryConceptError",
                          nodes |-> ns]

\* C15: for a Gene or HOG bound to g, set_genome(g2) with g2 # g raises and
\* leaves the genome g, set_genome(g) succeeds and leaves it g; and no step of
\* the construction changes the genome of a node that is bound.
C15_GenomeBoundOnce ==
    [][/\ C15_Rebinding(nodes)
       /\ C15_Rebinding(nodes')
       /\ \A n \in DOMAIN nodes :
              nodes[n].genome # None => nodes'[n].genome = nodes[n].genome]_vars

\* genes, a group and a synthetic HOG are bound while the parse goes on
C15_Witness ==
    /\ status = "parsing"
    /\ \E h \in history.groups, s \in Synthetic, g \in Genes :
           /\ nodes[h].genome # None
           /\ nodes[s].genome # None
           /\ nodes[g].genome # None

\* C16: a gene event that arrives while no species is current (before the first
\* species, or after a species end) fails the construction with the attribute
\* error of the missing genome; extant_gene_map is not written and no genome
\* receives the gene.
C16_GeneWithoutSpeciesFails ==
    [][(current_species = None /\ Len(nodes') = Len(nodes) + 1
            /\ nodes'[Len(nodes')].kind = "gene") =>
           /\ status' = "failed"
           /\ error' = "AttributeError"
           /\ extant_gene_map' = extant_gene_map
           /\ taxon_genome' = taxon_genome
           /\ nodes'[Len(nodes')].genome = None]_vars

\* a gene event after the end of a species that holds a gene
C16_Witness ==
    /\ status = "failed"
    /\ error = "AttributeError"
    /\ current_species = None
    /\ \E t \in DOMAIN taxon_genome :
           taxon_genome[t].kind = "extant" /\ taxon_genome[t].genes # {}
    /\ nodes[Len(nodes)].kind = "gene"
    /\ nodes[Len(nodes)].genome = None
    /\ extant_gene_map[nodes[Len(nodes)].id] # Len(nodes)

\* C17: a species event whose name denotes no taxonomic node, or more than one,
\* raises KeyError; the event creates and attaches no genome and leaves the
\* current species as it was.
C17_BadSpeciesNameFails ==
    [][(history.bad_species = None /\ history'.bad_species # None) =>
           /\ status' = "failed"
           /\ error' = "KeyError"
           /\ taxon_genome' = taxon_genome
           /\ current_species' = current_species
           /\ nodes' = nodes
           /\ extant_gene_map' = extant_gene_map]_vars

\* the name of two nodes was given while a species was current
C17_Witness ==
    /\ history.bad_species = "ambiguous"
    /\ newick = "T3"
    /\ status = "failed"
    /\ current_species = "human"
    /\ taxon_genome["twinA"] = NoGenome
    /\ taxon_genome["twinB"] = NoGenome

\* C18: the children of a HOG form a set: no node occurs twice among the
\* children of one HOG, in any state.
C18_ChildrenAreSet ==
    \A h \in HOGs : \A x \in Children(nodes, h) :
        Occurrences(nodes[h].children, x) = 1

\* the orders in which the entries of seq can be taken
PermsOf(seq) ==
    {[i \in DOMAIN seq |-> seq[p[i]]] : p \in Permutations(DOMAIN seq)}

RECURSIVE Canon(_, _)
\* the tree below n without object identities and without the order of children:
\* what n is, its genome, the genome and id of its parent, and its subtrees
Canon(ns, n) ==
    [kind |-> ns[n].kind, id |-> ns[n].id, genome |-> ns[n].genome,
     parent |-> IF ns[n].parent = 0 THEN <<>>
                ELSE <<ns[ns[n].parent].genome, ns[ns[n].parent].id>>,
     size |-> Len(ns[n].children),
     subtrees |-> {Canon(ns, c) : c \in Children(ns, n)}]

\* which nodes carry which kind of genome, and how many HOGs and genes each holds
GenomeShape(tg) ==
    [t \in DOMAIN tg |-> [kind |-> tg[t].kind, held |-> Cardinality(tg[t].genes)]]

\* C19: at a group end that succeeds, reconciling the children that need level
\* insertion in any order gives the tree the event leaves behind: the same
\* edges in both directions and the same genome bindings, up to the order of
\* children, and the same genomes created.
C19_OrderIndependent ==
    [][(hog_stack # <<>> /\ hog_stack' = Front(hog_stack) /\ status' = "parsing") =>
           LET P == Last(hog_stack)
               g == _get_ancestral_genome_by_mrca_of_hog_children_genomes(
                        Up, nodes, taxon_genome, P)
               b == set_genome(nodes, P, g.genome).nodes
               tg == add_gene(g.taxon_genome, g.genome, P)
           IN  \A order \in PermsOf(Change(Up, b, P)) :
                   LET r == Reconcile(Up, b, tg, P, order)
                   IN  /\ r.ok
                       /\ Canon(r.nodes, P) = Canon(nodes', P)
                       /\ GenomeShape(r.taxon_genome) = GenomeShape(taxon_genome')
                       /\ \A n \in DOMAIN nodes \ Closure(nodes, {P}) :
                              r.nodes[n] = nodes'[n]]_vars

\* a group whose two children both needed a level: each is under its own HOG
C19_Witness ==
    /\ status = "parsing"
    /\ \E h \in history.groups :
           /\ Len(nodes[h].children) = 2
           /\ Children(nodes, h) \subseteq Synthetic
           /\ Cardinality(Children(nodes, h)) = 2
           /\ \A s \in Children(nodes, h) :
                  nodes[s].parent = h /\ Len(nodes[s].children) = 1

\* C20: while the parse goes on, an event of a tag outside species, gene,
\* geneRef, orthologGroup and score (another element, or a property whatever its
\* attributes) cannot change anything: not hog_stack, current_species,
\* extant_gene_map, toplevel_hogs or any node, and it cannot raise.
C20_IgnoredTagsNoEffect ==
    status = "parsing" =>
        /\ \A name \in PropertyNames :
               ~ENABLED (StartProperty(name) /\ vars' # vars)
        /\ ~ENABLED (StartOther /\ vars' # vars)
        /\ ~ENABLED (EndOther /\ vars' # vars)

\* the state end() is in after binding the popped HOG P and before reconciling
MidClose(P) ==
    LET g == _get_ancestral_genome_by_mrca_of_hog_children_genomes(
                 Up, nodes, taxon_genome, P)
    IN  [ok |-> g.ok,
         nodes |-> IF g.ok THEN set_genome(nodes, P, g.genome).nodes ELSE nodes,
         taxon_genome |-> IF g.ok THEN add_gene(g.taxon_genome, g.genome, P)
                          ELSE taxon_genome]

\* t lies strictly between the taxon lo and its ancestor hi
StrictlyBetween(t, lo, hi) ==
    /\ t # lo /\ t # hi
    /\ t \in Range(Lineage(Up, lo))
    /\ hi \in Range(Lineage(Up, t))

\* C21: at a group end, reconciliation is called for exactly the children whose
\* taxon is not one level below the taxon of the HOG, and each call gets a path
\* that is not empty and whose taxa lie strictly between the two taxa; so a
\* child bound to the taxon of the HOG itself is never reconciled with an empty
\* path.
C21_ReconciledWithPath ==
    [][(hog_stack # <<>> /\ hog_stack' = Front(hog_stack)
            /\ MidClose(Last(hog_stack)).ok) =>
           LET P == Last(hog_stack)
               b == MidClose(P).nodes
               change == Change(Up, b, P)
           IN  /\ {change[i].hog_child : i \in DOMAIN change} =
                      {c \in Children(b, P) :
                          Depth(Up, b[c].genome) # Depth(Up, b[P].genome) + 1}
               /\ \A i \in DOMAIN change :
                      /\ change[i].missing # <<>>
                      /\ \A t \in Range(change[i].missing) :
                             StrictlyBetween(t, b[change[i].hog_child].genome,
                                             b[P].genome)]_vars

\* the stack st holds, outermost first, the groups that are open: each one is a
\* child of the one before it, the first one is a document root, and a group is
\* off the stack only when it has been closed
C22_OpenGroups(ns, st, groups, sts) ==
    /\ \A i, j \in DOMAIN st : st[i] = st[j] => i = j
    /\ \A i \in DOMAIN st :
           /\ st[i] \in groups
           /\ ns[st[i]].genome = None
           /\ IF i = 1 THEN ns[st[i]].parent = 0
              ELSE ns[st[i]].parent = st[i - 1] /\ st[i] \in Children(ns, st[i - 1])
    /\ \A h \in groups \ Range(st) : ns[h].genome # None \/ sts = "failed"

\* C22: the stack always holds exactly the open groups, innermost last; it
\* changes only by an orthologGroup start, which creates a HOG, makes it the last
\* child of the previous top if there is one and pushes it, and by an
\* orthologGroup end, which pops the last element.
C22_StackDiscipline ==
    [][/\ C22_OpenGroups(nodes, hog_stack, history.groups, status)
       /\ C22_OpenGroups(nodes', hog_stack', history'.groups, status')
       /\ history'.groups # history.groups => hog_stack' # hog_stack
       /\ hog_stack' # hog_stack =>
              LET new == Len(nodes) + 1
              IN  \/ /\ hog_stack' = Append(hog_stack, new)
                     /\ history'.groups = history.groups \cup {new}
                     /\ nodes'[new].kind = "hog"
                     /\ nodes'[new].children = <<>>
                     /\ IF hog_stack = <<>> THEN nodes'[new].parent = 0
                        ELSE /\ nodes'[new].parent = Last(hog_stack)
                             /\ nodes'[Last(hog_stack)].children =
                                    Append(nodes[Last(hog_stack)].children, new)
                  \/ /\ hog_stack # <<>>
                     /\ hog_stack' = Front(hog_stack)
                     /\ history'.groups = history.groups
                     /\ status' = "failed"
                            \/ nodes'[Last(hog_stack)].genome # None]_vars

\* two groups are open, one inside the other, next to a group already closed
C22_Witness ==
    /\ status = "parsing"
    /\ Len(hog_stack) = 2
    /\ nodes[hog_stack[2]].parent = hog_stack[1]
    /\ \E h \in history.groups \ Range(hog_stack) : nodes[h].genome # None

\* C25: a HOG on the stack has no genome, and while the parse goes on every
\* child of the top of the stack, the HOG the next orthologGroup end would pop,
\* is bound: a gene since its gene event, a nested HOG since its own end; the
\* MRCA computation never meets an unbound genome.
C25_ChildrenBoundAtPop ==
    /\ \A h \in Range(hog_stack) : nodes[h].genome = None
    /\ (status = "parsing" /\ hog_stack # <<>>) =>
           \A c \in Children(nodes, Last(hog_stack)) : nodes[c].genome # None
    /\ \A k \in GeneRefIds :
           extant_gene_map[k] # 0 => nodes[extant_gene_map[k]].genome # None
    /\ error # "TypeError"

\* the open group holds a gene and a nested group that has been closed
C25_Witness ==
    /\ status = "parsing"
    /\ hog_stack # <<>>
    /\ \E c, d \in Children(nodes, Last(hog_stack)) :
           /\ nodes[c].kind = "gene"
           /\ nodes[d].kind = "hog"
           /\ nodes[d].genome # None

\* the first position of the path at which the taxon is not the parent of the
\* taxon of the chain tail (0: the path climbs one level at a time from lo)
FirstWrongLevel(lo, missing) ==
    LET below(i) == IF i = 1 THEN lo ELSE missing[i - 1]
        wrong == {i \in DOMAIN missing : missing[i] # Up[below(i)]}
    IN  IF wrong = {} THEN 0 ELSE CHOOSE i \in wrong : \A j \in wrong : i <= j

\* the paths tried on a child bound to lo: any taxon, and the parent of lo
\* followed by any taxon
PathsFrom(lo) ==
    {<<t>> : t \in DOMAIN Up} \cup
    {<<Up[lo], t>> : t \in IF Up[lo] = None THEN {} ELSE DOMAIN Up}

\* C23: when _add_missing_taxon meets a path whose next taxon is not the
\* immediate parent of the taxon of the chain tail, it raises TypeError at that
\* level: the HOG just created for it has no child and is nobody's parent, the
\* loop of end() stops with that error, and a parse that has failed returns
\* nothing.
C23_WrongLevelIsFatal ==
    /\ status = "failed" => ConstructionResult = None
    /\ (status = "parsing" /\ hog_stack # <<>> /\ MidClose(Last(hog_stack)).ok) =>
           LET P == Last(hog_stack)
               m == MidClose(P)
           IN  \A c \in Children(m.nodes, P) :
                   \A missing \in PathsFrom(m.nodes[c].genome) :
                       LET k == FirstWrongLevel(m.nodes[c].genome, missing)
                           r == _add_missing_taxon(Up, m.nodes, m.taxon_genome, c, P,
                                                   missing)
                           new == Len(m.nodes) + k
                       IN  IF k = 0 THEN r.ok
                           ELSE /\ ~r.ok
                                /\ r.err = "TypeError"
                                /\ Len(r.nodes) = new
                                /\ r.nodes[new].children = <<>>
                                /\ \A n \in DOMAIN r.nodes : r.nodes[n].parent # new
                                /\ ~Reconcile(Up, m.nodes, m.taxon_genome, P,
                                              <<[hog_child |-> c,
                                                 missing |-> missing]>>).ok

\* a group about to close over a child two levels below it, for which a path
\* through bird is a wrong path
C23_Witness ==
    /\ status = "parsing"
    /\ newick = "T1"
    /\ hog_stack # <<>>
    /\ MidClose(Last(hog_stack)).ok
    /\ \E c \in Children(nodes, Last(hog_stack)) :
           /\ nodes[c].genome = "human"
           /\ MidClose(Last(hog_stack)).nodes[Last(hog_stack)].genome = "vertebrate"
           /\ FirstWrongLevel("human", <<"bird">>) = 1
           /\ FirstWrongLevel("human", <<"mammal", "bird">>) = 2

\* what a successful _add_missing_taxon(C, P, missing) leaves alone, from ns1 to
\* ns2: the other children of P, their number, P's parent and genome, C's genome
\* and children, and every other node that existed
C27_Frame(ns1, ns2, P, C, missing) ==
    /\ Len(ns2[P].children) = Len(ns1[P].children)
    /\ Front(ns2[P].children) = RemoveFirst(ns1[P].children, C)
    /\ ParentAt(ns2, C, Len(missing) + 1) = P
    /\ Last(ns2[P].children) = ParentAt(ns2, C, Len(missing))
    /\ ns2[P] = [ns1[P] EXCEPT !.children = ns2[P].children]
    /\ ns2[C] = [ns1[C] EXCEPT !.parent = ns2[C].parent]
    /\ \A n \in DOMAIN ns1 \ {P, C} : ns2[n] = ns1[n]
    /\ \A n \in DOMAIN ns2 \ DOMAIN ns1 : ns2[n].kind = "hog"

\* C27: at a group end that succeeds, each reconciliation of a child C of the
\* closing HOG P changes only the edge between P and C (C's parent, the place of
\* C among P's children, the new chain between them); and the event leaves
\* extant_gene_map alone, only pops the stack, and writes toplevel_hogs at most
\* under the id of P.
C27_ReconciliationFrame ==
    [][(hog_stack # <<>> /\ hog_stack' = Front(hog_stack) /\ status' = "parsing") =>
           LET P == Last(hog_stack)
               m == MidClose(P)
               change == Change(Up, m.nodes, P)
           IN  /\ \A i \in DOMAIN change :
                      LET r == _add_missing_taxon(Up, m.nodes, m.taxon_genome,
                                                  change[i].hog_child, P,
                                                  change[i].missing)
                      IN  /\ r.ok
                          /\ C27_Frame(m.nodes, r.nodes, P, change[i].hog_child,
                                       change[i].missing)
               /\ Len(nodes'[P].children) = Len(nodes[P].children)
               /\ nodes'[P].parent = nodes[P].parent
               /\ extant_gene_map' = extant_gene_map
               /\ \A k \in HogIds :
                      toplevel_hogs'[k] # toplevel_hogs[k] =>
                          k = nodes[P].id /\ toplevel_hogs'[k] = P]_vars

\* a closed group that kept its chicken gene as first child and holds the chain
\* over its human gene as second child
C27_Witness ==
    /\ newick = "T2"
    /\ status = "parsing"
    /\ \E h \in history.groups :
           /\ nodes[h].genome = "vertebrate"
           /\ Len(nodes[h].children) = 2
           /\ nodes[nodes[h].children[1]].genome = "chicken"
           /\ nodes[nodes[h].children[1]].kind = "gene"
           /\ nodes[h].children[2] \in Synthetic

RECURSIVE SumLevels(_, _, _)
\* the sum over the children in S of (depth difference to tax_node) - 1
SumLevels(ns, S, tax_node) ==
    IF S = {} THEN 0
    ELSE LET c == CHOOSE x \in S : TRUE
         IN  (LevelsBelow(ns, c, tax_node) - 1) + SumLevels(ns, S \ {c}, tax_node)

\* the new HOGs of ns2 that lie above c
ChainOver(ns1, ns2, c) ==
    {ParentAt(ns2, c, i) : i \in 1..Len(ns2)} \cap (DOMAIN ns2 \ DOMAIN ns1)

\* C26: a group end that succeeds creates, for its children taken as a set, the
\* sum of (depth difference - 1) HOGs; each of them has no id and exactly one
\* child, and the chains of two children have no HOG in common, also when both
\* pass through the same taxon.
C26_OwnChainPerChild ==
    [][(hog_stack # <<>> /\ hog_stack' = Front(hog_stack) /\ status' = "parsing") =>
           LET P == Last(hog_stack)
               created == DOMAIN nodes' \ DOMAIN nodes
           IN  /\ Cardinality(created) =
                      SumLevels(nodes, Children(nodes, P), nodes'[P].genome)
               /\ \A s \in created :
                      /\ nodes'[s].kind = "hog"
                      /\ nodes'[s].id = None
                      /\ Len(nodes'[s].children) = 1
                      /\ \E c \in Children(nodes, P) :
                             s \in ChainOver(nodes, nodes', c)
               /\ \A c, d \in Children(nodes, P) :
                      c # d => ChainOver(nodes, nodes', c)
                                   \cap ChainOver(nodes, nodes', d) = {}]_vars

\* what running the two calls one after the other leaves
C24_Sequential ==
    Reconcile(Up, MidNodes(newick), MidGenomes(newick), 4,
              [w \in DOMAIN workers |->
                  [hog_child |-> workers[w].child_hog,
                   missing |-> workers[w].missing_taxons]])

\* C24: when two reconciliations under one HOG run interleaved statement by
\* statement, with each genome lookup as one step, no taxonomic node ever gets
\* a second genome, two calls that look up the same node hold the same Genome,
\* no call fails, and when both are done the tree and the genomes are those of
\* running one call after the other.
C24_InterleavedAsSequential ==
    workers # <<>> =>
        /\ \A t \in DOMAIN taxon_genome : taxon_genome[t].serial <= 1
        /\ \A v, w \in DOMAIN workers :
               (workers[v].ancestral_genome # None
                    /\ workers[w].ancestral_genome # None
                    /\ workers[v].ancestral_genome[1] = workers[w].ancestral_genome[1])
                   => workers[v].ancestral_genome = workers[w].ancestral_genome
        /\ status = "parsing"
        /\ (\A w \in DOMAIN workers : workers[w].pc = "done") =>
               /\ C24_Sequential.ok
               /\ Canon(nodes, 4) = Canon(C24_Sequential.nodes, 4)
               /\ GenomeShape(taxon_genome) = GenomeShape(C24_Sequential.taxon_genome)

\* both calls are done; each went through mammal, the second HOG of mammal
\* was created before the first one was linked to its child
C24_Witness ==
    /\ workers # <<>>
    /\ \A w \in DOMAIN workers : workers[w].pc = "done"
    /\ \A w \in DOMAIN workers : workers[w].ancestral_genome = <<"mammal", 1>>
    /\ taxon_genome["mammal"].genes = {workers[1].hog, workers[2].hog}
    /\ workers[1].hog # workers[2].hog
    /\ workers[2].hog < workers[1].hog

====
